---- MODULE Spec2Model ----
(***************************************************************************)
(* Model of api/index.py: a FastAPI application with one endpoint,         *)
(* POST /chatkit/session, behind a CORS middleware.  A request body is     *)
(* parsed into SessionRequest, get_openai_client() reads OPENAI_API_KEY    *)
(* from the process environment, the handler calls the provider's          *)
(* chatkit.sessions.create with a fixed workflow id and the caller's       *)
(* deviceId, and answers {"client_secret": session.client_secret}.         *)
(*                                                                         *)
(* Optional values (a header that may be missing, os.getenv's None, a      *)
(* JSON field that may be missing) are sequences of length 0 or 1.         *)
(***************************************************************************)
EXTENDS Integers, Sequences, FiniteSets, TLC

VARIABLES
    env,      \* OPENAI_API_KEY in os.environ: <<>> when unset, else <<value>>
    pc,       \* where each request is: idle, received, routed, validated, calling, done
    req,      \* the HTTP request each caller sent
    frame,    \* the locals of each running create_chatkit_session invocation
    calls,    \* per request, the payloads its handler passed to sessions.create
    reply,    \* per request, what the provider answered to its call
    issued,   \* provider side: how many client secrets it has issued
    resp      \* per request, the HTTP response the caller received

vars == <<env, pc, req, frame, calls, reply, issued, resp>>

\* ---------------------------------------------------------------- bounds

NReq == 2          \* requests a behaviour holds
Requests == 1..NReq

\* ------------------------------------------------------- the input space

None == <<>>
Some(v) == <<v>>

\* values OPENAI_API_KEY takes: unset, set to "", set to a key
EnvValues == {None, Some(""), Some("sk-test")}

\* JSON values a client may put under "deviceId"
JsonString(s) == [t |-> "string", v |-> s]
DeviceIdValues ==
    { JsonString("device-123"), JsonString("device-456"), JsonString(""),
      [t |-> "number", v |-> "5"] }

\* request bodies: a JSON object with or without deviceId, or a JSON array
Bodies ==
    { [kind |-> "object", deviceId |-> Some(d)] : d \in DeviceIdValues }
    \cup { [kind |-> "object", deviceId |-> None], [kind |-> "array", deviceId |-> None] }

NoBody == [kind |-> "none", deviceId |-> None]

Origins == {"https://a.example"}

PostRequests ==
    [ method : {"POST"}, origin : {None} \cup {Some(o) : o \in Origins},
      acrm : {None}, acrh : {None}, body : Bodies ]

\* OPTIONS requests; acrm / acrh are the Access-Control-Request-Method and
\* Access-Control-Request-Headers headers a browser's preflight carries
OptionsRequests ==
    [ method : {"OPTIONS"}, origin : {Some(o) : o \in Origins},
      acrm : {None, Some("POST"), Some("TRACE")},
      acrh : {None, Some("x-device, authorization")}, body : {NoBody} ]
    \cup { [method |-> "OPTIONS", origin |-> None, acrm |-> None, acrh |-> None,
            body |-> NoBody] }

HttpRequests == PostRequests \cup OptionsRequests

NoRequest == [method |-> "", origin |-> None, acrm |-> None, acrh |-> None, body |-> NoBody]

\* ------------------------------------------------------------ responses

NoHeaders == [acao |-> None, acam |-> {}, acah |-> None, acac |-> None]
NoResponse == [status |-> 0, headers |-> NoHeaders, body |-> [text |-> ""]]

NoFrame == [client |-> None, session |-> None]

\* ------------------------------------------------------ SessionRequest

\* a validator that turns a JSON number into its decimal string
SessionRequest_coercing(body) ==
    /\ body.kind = "object"
    /\ body.deviceId # None
    /\ body.deviceId[1].t \in {"string", "number"}

\* a validator that also wants at least one character
SessionRequest_min_length(body) ==
    /\ body.kind = "object"
    /\ body.deviceId # None
    /\ body.deviceId[1].t = "string"
    /\ body.deviceId[1].v # ""

\* deviceId: str -- the body must be a JSON object whose deviceId is present
\* and a JSON string; nothing else about the string is constrained.
SessionRequest_valid(body) ==
    /\ body.kind = "object"
    /\ body.deviceId # None
    /\ body.deviceId[1].t = "string"

\* req.deviceId of a body that validated
SessionRequest_deviceId(body) == body.deviceId[1].v

ValidationError == [status |-> 422, body |-> [detail |-> "validation error"]]

\* ----------------------------------------------------- CORS middleware

\* the middleware's default when allow_methods is not given
allow_methods_default == {"GET"}

\* allow_methods=["*"] stands for the middleware's list of all methods
allow_methods == {"DELETE", "GET", "HEAD", "OPTIONS", "PATCH", "POST", "PUT"}

\* a request the middleware answers itself: OPTIONS with Origin and
\* Access-Control-Request-Method
IsPreflight(q) == q.method = "OPTIONS" /\ q.origin # None /\ q.acrm # None

\* allow_origins=["*"], allow_credentials=True, allow_headers=["*"]:
\* the origin and the requested headers are mirrored back
preflight_response(q) ==
    [ status  |-> IF q.acrm[1] \in allow_methods THEN 200 ELSE 400,
      headers |-> [acao |-> q.origin, acam |-> allow_methods, acah |-> q.acrh,
                   acac |-> Some("true")],
      body    |-> [text |-> IF q.acrm[1] \in allow_methods THEN "OK"
                            ELSE "Disallowed CORS method"] ]

\* headers the middleware adds to the application's own responses
simple_headers(q) ==
    IF q.origin = None THEN NoHeaders
    ELSE [acao |-> Some("*"), acam |-> {}, acah |-> None, acac |-> Some("true")]

\* a response of the application as the caller sees it
Through(q, status, body) == [status |-> status, headers |-> simple_headers(q), body |-> body]

\* an exception that escapes the handler: 500 from the server-error layer,
\* outside the CORS middleware
InternalServerError ==
    [status |-> 500, headers |-> NoHeaders, body |-> [text |-> "Internal Server Error"]]

\* ---------------------------------------------------- get_openai_client

\* a check that tests "api_key is None" instead of "not api_key"
get_openai_client_is_none(e) ==
    IF e = None
    THEN [raised |-> TRUE, api_key |-> None]
    ELSE [raised |-> FALSE, api_key |-> e]

\* api_key = os.getenv("OPENAI_API_KEY"); if not api_key: raise RuntimeError
get_openai_client(e) ==
    IF e = None \/ e = Some("")
    THEN [raised |-> TRUE, api_key |-> None]
    ELSE [raised |-> FALSE, api_key |-> e]

\* ------------------------------------------------ create_chatkit_session

workflow_id == "wf_692605e459d481909eb01292c1ae28e307b2a2a9ee1d324"

\* the two fields filled the wrong way round
create_params_swapped(r, client) ==
    [ api_key  |-> client.api_key[1],
      workflow |-> [id |-> SessionRequest_deviceId(req[r].body)],
      user     |-> workflow_id ]

\* the user taken from whichever validated request comes first, as a handler
\* reading the request from a module-level variable would
create_params_shared(r, client) ==
    [ api_key  |-> client.api_key[1],
      workflow |-> [id |-> workflow_id],
      user     |-> SessionRequest_deviceId(
                       req[CHOOSE q \in Requests : pc[q] = "validated"].body) ]

\* the argument of client.chatkit.sessions.create, with the key the client holds
create_params(r, client) ==
    [ api_key  |-> client.api_key[1],
      workflow |-> [id |-> workflow_id],
      user     |-> SessionRequest_deviceId(req[r].body) ]

\* return {"client_secret": session.client_secret}
session_response(session) == [client_secret |-> session.client_secret]

\* a handler that catches the failure and answers an empty secret
provider_error_fallback(f) ==
    [status |-> 200, headers |-> NoHeaders, body |-> [client_secret |-> 0]]

\* what the handler answers when sessions.create raises: nothing catches it
provider_error_response(f) == InternalServerError

\* a handler that keeps its client and session after returning
frame_retained(f) == f

\* the invocation's locals once it has returned or raised
frame_after_return(f) == NoFrame

\* the handler is an async def that calls the synchronous client without
\* awaiting: while one invocation waits for the provider, the event loop
\* runs nothing else
LoopFree == \A q \in Requests : pc[q] # "calling"

\* ---------------------------------------------------------------- Init

Init ==
    /\ env \in EnvValues
    /\ pc = [r \in Requests |-> "idle"]
    /\ req = [r \in Requests |-> NoRequest]
    /\ frame = [r \in Requests |-> NoFrame]
    /\ calls = [r \in Requests |-> <<>>]
    /\ reply = [r \in Requests |-> None]
    /\ issued = 0
    /\ resp = [r \in Requests |-> NoResponse]

\* -------------------------------------------------------------- actions

\* the deployment (or a test) changes OPENAI_API_KEY
SetEnv ==
    /\ \E e \in EnvValues : e # env /\ env' = e
    /\ UNCHANGED <<pc, req, frame, calls, reply, issued, resp>>

\* a caller's request reaches the server
Receive(r) ==
    /\ pc[r] = "idle"
    /\ \E q \in HttpRequests : req' = [req EXCEPT ![r] = q]
    /\ pc' = [pc EXCEPT ![r] = "received"]
    /\ UNCHANGED <<env, frame, calls, reply, issued, resp>>

\* CORSMiddleware answers a preflight itself
CorsPreflight(r) ==
    /\ pc[r] = "received"
    /\ LoopFree
    /\ IsPreflight(req[r])
    /\ resp' = [resp EXCEPT ![r] = preflight_response(req[r])]
    /\ pc' = [pc EXCEPT ![r] = "done"]
    /\ UNCHANGED <<env, req, frame, calls, reply, issued>>

\* CORSMiddleware passes every other request on to the application
CorsPass(r) ==
    /\ pc[r] = "received"
    /\ LoopFree
    /\ ~IsPreflight(req[r])
    /\ pc' = [pc EXCEPT ![r] = "routed"]
    /\ UNCHANGED <<env, req, frame, calls, reply, issued, resp>>

\* an application that builds the client before it parses the body
Validate_after_credential(r) ==
    /\ pc[r] = "routed"
    /\ LoopFree
    /\ IF req[r].method # "POST"
       THEN /\ resp' = [resp EXCEPT ![r] =
                            Through(req[r], 405, [detail |-> "Method Not Allowed"])]
            /\ pc' = [pc EXCEPT ![r] = "done"]
       ELSE IF get_openai_client(env).raised
       THEN /\ resp' = [resp EXCEPT ![r] = InternalServerError]
            /\ pc' = [pc EXCEPT ![r] = "done"]
       ELSE IF ~SessionRequest_valid(req[r].body)
       THEN /\ resp' = [resp EXCEPT ![r] =
                            Through(req[r], ValidationError.status, ValidationError.body)]
            /\ pc' = [pc EXCEPT ![r] = "done"]
       ELSE /\ pc' = [pc EXCEPT ![r] = "validated"]
            /\ UNCHANGED resp
    /\ UNCHANGED <<env, req, frame, calls, reply, issued>>

\* @app.post("/chatkit/session") with req: SessionRequest: another method is
\* answered 405, a body that does not validate 422, before the handler runs
Validate(r) ==
    /\ pc[r] = "routed"
    /\ LoopFree
    /\ IF req[r].method # "POST"
       THEN /\ resp' = [resp EXCEPT ![r] =
                            Through(req[r], 405, [detail |-> "Method Not Allowed"])]
            /\ pc' = [pc EXCEPT ![r] = "done"]
       ELSE IF ~SessionRequest_valid(req[r].body)
       THEN /\ resp' = [resp EXCEPT ![r] =
                            Through(req[r], ValidationError.status, ValidationError.body)]
            /\ pc' = [pc EXCEPT ![r] = "done"]
       ELSE /\ pc' = [pc EXCEPT ![r] = "validated"]
            /\ UNCHANGED resp
    /\ UNCHANGED <<env, req, frame, calls, reply, issued>>

\* create_chatkit_session up to the provider call: get_openai_client(), then
\* sessions.create(...) is entered
Handle(r) ==
    /\ pc[r] = "validated"
    /\ LoopFree
    /\ LET client == get_openai_client(env) IN
       IF client.raised
       THEN /\ resp' = [resp EXCEPT ![r] = InternalServerError]
            /\ pc' = [pc EXCEPT ![r] = "done"]
            /\ frame' = [frame EXCEPT ![r] = frame_after_return(frame[r])]
            /\ UNCHANGED calls
       ELSE /\ calls' = [calls EXCEPT ![r] = Append(@, create_params(r, client))]
            /\ frame' = [frame EXCEPT ![r].client = client.api_key]
            /\ pc' = [pc EXCEPT ![r] = "calling"]
            /\ UNCHANGED resp
    /\ UNCHANGED <<env, req, reply, issued>>

\* the provider issues a session; the handler returns its client_secret
ProviderReturn(r) ==
    /\ pc[r] = "calling"
    /\ LET session == [client_secret |-> issued + 1]
           f == [frame[r] EXCEPT !.session = Some(session)] IN
       /\ issued' = issued + 1
       /\ reply' = [reply EXCEPT ![r] = Some([ok |-> TRUE, client_secret |-> issued + 1])]
       /\ resp' = [resp EXCEPT ![r] = Through(req[r], 200, session_response(f.session[1]))]
       /\ frame' = [frame EXCEPT ![r] = frame_after_return(f)]
    /\ pc' = [pc EXCEPT ![r] = "done"]
    /\ UNCHANGED <<env, req, calls>>

\* the provider call raises (network, authentication, workflow id, quota)
ProviderRaise(r) ==
    /\ pc[r] = "calling"
    /\ reply' = [reply EXCEPT ![r] = Some([ok |-> FALSE, client_secret |-> 0])]
    /\ resp' = [resp EXCEPT ![r] = provider_error_response(frame[r])]
    /\ frame' = [frame EXCEPT ![r] = frame_after_return(frame[r])]
    /\ pc' = [pc EXCEPT ![r] = "done"]
    /\ UNCHANGED <<env, req, calls, issued>>

Next ==
    \/ SetEnv
    \/ \E r \in Requests : Receive(r)
    \/ \E r \in Requests : CorsPreflight(r)
    \/ \E r \in Requests : CorsPass(r)
    \/ \E r \in Requests : Validate(r)
    \/ \E r \in Requests : Handle(r)
    \/ \E r \in Requests : ProviderReturn(r)
    \/ \E r \in Requests : ProviderRaise(r)

Spec == Init /\ [][Next]_vars

\* ------------------------------------------------- the claims' vocabulary

Absent(e) == e = None \/ e = Some("")

IsPost(r) == req[r].method = "POST"

\* the body is {"deviceId": d} with d a JSON string
HasStringId(r, d) ==
    IsPost(r) /\ req[r].body.kind = "object" /\ req[r].body.deviceId = Some(JsonString(d))

DeviceStrings == {"device-123", "device-456", ""}

\* the body is a JSON object that lacks deviceId or whose deviceId is not a string
Malformed(r) ==
    /\ IsPost(r)
    /\ req[r].body.kind = "object"
    /\ \/ req[r].body.deviceId = None
       \/ req[r].body.deviceId[1].t # "string"

Succeeded(r) == reply[r] # None /\ reply[r][1].ok
Failed(r) == reply[r] # None /\ ~reply[r][1].ok

HasSecret(r) == "client_secret" \in DOMAIN resp[r].body

\* --------------------------------------------------------------- claims

\* C1: a valid request {"deviceId": d}, d non-empty, whose provider call
\* succeeded made one provider call with user = d and the fixed workflow id,
\* and was answered 200 {"client_secret": s} with s the secret the provider
\* returned for that call.
C1_RelaysSecret ==
    \A r \in Requests : \A d \in DeviceStrings \ {""} :
        (HasStringId(r, d) /\ Succeeded(r)) =>
            /\ Len(calls[r]) = 1
            /\ calls[r][1].user = d
            /\ calls[r][1].workflow = [id |-> "wf_692605e459d481909eb01292c1ae28e307b2a2a9ee1d324"]
            /\ ~Absent(Some(calls[r][1].api_key))
            /\ pc[r] = "done"
            /\ resp[r].status = 200
            /\ resp[r].body = [client_secret |-> reply[r][1].client_secret]

C1_Witness ==
    \E r \in Requests :
        /\ HasStringId(r, "device-123") /\ Succeeded(r)
        /\ resp[r].status = 200 /\ HasSecret(r)

\* C2: a well-formed request handled while OPENAI_API_KEY is unset or empty,
\* whatever it was before, makes no provider call and is answered with a
\* server error; and no provider call ever carries an absent key.
C2_NoCredentialNoCall ==
    [][ \A r \in Requests :
          /\ (pc[r] = "validated" /\ pc'[r] # "validated" /\ Absent(env)) =>
                /\ calls' = calls
                /\ calls'[r] = <<>>
                /\ reply'[r] = None
                /\ pc'[r] = "done"
                /\ resp'[r].status \in 500..599
          /\ \A i \in 1..Len(calls'[r]) : ~Absent(Some(calls'[r][i].api_key)) ]_vars

\* a request refused for the missing key next to one that was served earlier
\* or later with the key present
C2_Witness ==
    \E r, q \in Requests :
        /\ pc[r] = "done" /\ \E d \in DeviceStrings : HasStringId(r, d)
        /\ calls[r] = <<>> /\ resp[r].status = 500
        /\ Absent(env)
        /\ Succeeded(q)

\* C3: a body that lacks deviceId, or whose deviceId is not a string, is
\* answered with a 4xx validation error and never reaches the provider.
C3_MalformedRejected ==
    \A r \in Requests :
        Malformed(r) =>
            /\ pc[r] \notin {"validated", "calling"}
            /\ calls[r] = <<>>
            /\ reply[r] = None
            /\ pc[r] = "done" => resp[r].status \in 400..499

C3_Witness ==
    \E r, q \in Requests :
        /\ Malformed(r) /\ req[r].body.deviceId # None
        /\ pc[r] = "done" /\ resp[r].status = 422
        /\ Malformed(q) /\ req[q].body.deviceId = None
        /\ pc[q] = "done" /\ resp[q].status = 422

\* C4: a provider call that failed leaves its request answered with a server
\* error that has no client_secret, after exactly one provider call.
C4_FailurePropagates ==
    \A r \in Requests :
        Failed(r) =>
            /\ Len(calls[r]) = 1
            /\ pc[r] = "done"
            /\ resp[r].status \in 500..599
            /\ ~HasSecret(r)

C4_Witness ==
    \E r \in Requests : Failed(r) /\ pc[r] = "done" /\ resp[r].status = 500

\* C5: while one request waits in its provider call, another request that
\* has arrived can take its next step (be validated, call the provider).
C5_ConcurrentProgress ==
    \A r1, r2 \in Requests :
        (r1 # r2 /\ pc[r1] = "calling" /\ pc[r2] \in {"received", "routed", "validated"}) =>
            ENABLED (CorsPreflight(r2) \/ CorsPass(r2) \/ Validate(r2) \/ Handle(r2))

\* C6: whatever the interleaving, every provider call carries the deviceId
\* of the request that made it, a client_secret a caller receives is the one
\* the provider issued for that caller's own call and for nobody else's, and
\* two answered requests that agree on the request, on whether a call was
\* made and on a failed provider reply are answered alike.
C6_RequestsIndependent ==
    \A r1, r2 \in Requests :
        /\ \A i \in 1..Len(calls[r1]) :
               HasStringId(r1, calls[r1][i].user)
        /\ (pc[r1] = "done" /\ HasSecret(r1)) =>
               /\ Succeeded(r1)
               /\ resp[r1].body.client_secret = reply[r1][1].client_secret
               /\ (r1 # r2 /\ Succeeded(r2)) =>
                      resp[r1].body.client_secret # reply[r2][1].client_secret
        /\ ( /\ pc[r1] = "done" /\ pc[r2] = "done"
             /\ req[r1] = req[r2]
             /\ Len(calls[r1]) = Len(calls[r2])
             /\ ~Succeeded(r1) /\ ~Succeeded(r2) /\ reply[r1] = reply[r2] ) =>
               resp[r1] = resp[r2]

\* two callers with different deviceIds, both served, each with its own secret
C6_Witness ==
    \E r1, r2 \in Requests :
        /\ HasStringId(r1, "device-123") /\ HasStringId(r2, "device-456")
        /\ Succeeded(r1) /\ Succeeded(r2)
        /\ pc[r1] = "done" /\ pc[r2] = "done"
        /\ HasSecret(r1) /\ HasSecret(r2)

\* C7: a step of request handling leaves OPENAI_API_KEY as it was, and a
\* request that has been answered (or has not started) holds no client, no
\* session and no secret in the process.
C7_NoLocalState ==
    [][ (\E r \in Requests : pc'[r] # pc[r]) =>
            /\ env' = env
            /\ \A r \in Requests :
                   pc'[r] \in {"idle", "received", "routed", "validated", "done"} =>
                       frame'[r] = NoFrame ]_vars

\* one request served and one failed upstream, both answered
C7_Witness ==
    \E r1, r2 \in Requests :
        /\ pc[r1] = "done" /\ Succeeded(r1) /\ HasSecret(r1)
        /\ pc[r2] = "done" /\ Failed(r2)
        /\ frame[r1] = NoFrame /\ frame[r2] = NoFrame

\* C8 as stated: every preflight, whatever method it asks for, succeeds, is
\* allowed its origin, method and headers, and triggers no provider call.
C8_AnyMethodPreflight ==
    \A r \in Requests :
        (pc[r] = "done" /\ IsPreflight(req[r])) =>
            /\ resp[r].status = 200
            /\ resp[r].headers.acao = req[r].origin
            /\ req[r].acrm[1] \in resp[r].headers.acam
            /\ req[r].acrh # None => resp[r].headers.acah = req[r].acrh
            /\ calls[r] = <<>>

\* C8 amended: a preflight that asks for one of DELETE, GET, HEAD, OPTIONS,
\* PATCH, POST, PUT succeeds and is allowed its origin, that method and the
\* headers it asked for; a preflight asking for any other method is answered
\* 400; no preflight triggers a provider call.
C8_StandardMethodPreflight ==
    \A r \in Requests :
        (pc[r] = "done" /\ IsPreflight(req[r])) =>
            /\ calls[r] = <<>>
            /\ reply[r] = None
            /\ IF req[r].acrm[1] \in {"DELETE", "GET", "HEAD", "OPTIONS", "PATCH", "POST", "PUT"}
               THEN /\ resp[r].status = 200
                    /\ resp[r].headers.acao = req[r].origin
                    /\ req[r].acrm[1] \in resp[r].headers.acam
                    /\ req[r].acrh # None => resp[r].headers.acah = req[r].acrh
               ELSE resp[r].status = 400

C8_Witness ==
    \E r \in Requests :
        /\ pc[r] = "done" /\ IsPreflight(req[r])
        /\ req[r].acrm = Some("POST") /\ req[r].acrh # None
        /\ resp[r].status = 200

\* C9: a malformed body handled while OPENAI_API_KEY is absent is answered
\* with the 4xx validation error, not the 500 of the missing key, and
\* get_openai_client is never reached for it.
C9_ValidationFirst ==
    [][ \A r \in Requests :
          (Malformed(r) /\ Absent(env) /\ pc[r] = "routed" /\ pc'[r] # "routed") =>
              /\ pc'[r] = "done"
              /\ resp'[r].status \in 400..499
              /\ calls'[r] = <<>> ]_vars

C9_Witness ==
    \E r \in Requests :
        /\ Malformed(r) /\ Absent(env)
        /\ pc[r] = "done" /\ resp[r].status = 422

\* C10: {"deviceId": ""} passes validation; handled with a key configured it
\* makes exactly one provider call with user = "", and it is answered as any
\* valid request is: 200 with the provider's secret, or 500 if the call fails.
C10_EmptyDeviceId ==
    [][ \A r \in Requests :
          HasStringId(r, "") =>
              /\ (pc[r] = "routed" /\ pc'[r] # "routed") => pc'[r] = "validated"
              /\ (pc[r] = "validated" /\ pc'[r] # "validated" /\ ~Absent(env)) =>
                     /\ pc'[r] = "calling"
                     /\ Len(calls'[r]) = 1
                     /\ calls'[r][1].user = ""
              /\ (pc[r] = "calling" /\ pc'[r] # "calling") =>
                     /\ calls'[r] = calls[r]
                     /\ pc'[r] = "done"
                     /\ IF reply'[r][1].ok
                        THEN /\ resp'[r].status = 200
                             /\ resp'[r].body = [client_secret |-> reply'[r][1].client_secret]
                        ELSE resp'[r].status = 500 ]_vars

C10_Witness ==
    \E r \in Requests :
        /\ HasStringId(r, "") /\ pc[r] = "done"
        /\ Len(calls[r]) = 1 /\ calls[r][1].user = ""
        /\ resp[r].status = 200 /\ HasSecret(r)

====
